---- MODULE Spec2Model ----
(***************************************************************************)
(* A model of the Observable / Observer stream primitive.                  *)
(*                                                                         *)
(* One Observable (its stored producer) and the Observers created by its   *)
(* subscribe() calls.  Every call of the API is one action; the producer   *)
(* run inside subscribe() is synchronous and is part of the Subscribe      *)
(* action.  Effects a consumer can see (handler and teardown invocations)  *)
(* are appended to `log` in the order they happen.                         *)
(***************************************************************************)
EXTENDS Integers, Sequences, FiniteSets

(* ------------------------------ bounds ------------------------------- *)
MaxLen == 2        \* longest array handed to Observable.from
MaxScript == 2     \* most calls a hand-written producer makes on its Observer
MaxSubs == 2       \* subscribe() calls on one Observable (SpecMulti)
MaxUnsub == 2      \* subscription.unsubscribe() calls per subscription

VARIABLES
  observable,   \* the Observable: its stored producer (_subscribe), or NoObservable
  observers,    \* the Observer created by the i-th subscribe() call
  handles,      \* the i for which subscribe() returned a subscription handle
  pc,           \* how many of its calls the producer run of Observer i has made
  log,          \* handler and teardown invocations, in order
  unsubCalls,   \* how often subscription.unsubscribe() was called on handle i
  last          \* the call made last, and how it ended

vars == <<observable, observers, handles, pc, log, unsubCalls, last>>

(* ------------------------------ values ------------------------------- *)
Values == {1, 2}            \* the values passed to next
Undefined == 0          \* the JavaScript value undefined
ProducerExc == -3           \* the exception a throwing producer throws
NoObservable == [kind |-> "none"]

\* A handler of the record passed to subscribe(): not supplied, a function
\* that returns, or a function that throws.
HandlerKind == {"absent", "returns", "throws"}
Handlers == [next : HandlerKind, error : HandlerKind, complete : HandlerKind]

\* What a producer returns to subscribe(): a function (the teardown),
\* nothing, a value that is not a function, or it throws instead.
RetKind == {"function", "void", "value", "throw"}

\* The calls a producer makes on its Observer.
Errors == {-1, -2}          \* the Error objects passed to error
Steps ==
  [op : {"next"}, arg : Values] \cup [op : {"error"}, arg : Errors]
    \cup [op : {"complete", "unsubscribe"}, arg : {Undefined}]

SeqsUpTo(S, n) == UNION {[1..k -> S] : k \in 0..n}

\* One entry of the log: the handler ("next", "error", "complete") or the
\* teardown that ran, the Observer concerned, the argument, and the value of
\* isUnsubscribed at that moment.
Ev(ev, i, val, unsub) == [ev |-> ev, obs |-> i, val |-> val, unsub |-> unsub]

\* The result of a call on an Observer: its new state, the log, and whether
\* an exception left the call.
Res(o, lg, threw) == [o |-> o, log |-> lg, threw |-> threw]

(* ----------------------------- Observer ------------------------------ *)
Observer(handlers) ==
  [handlers |-> handlers, isUnsubscribed |-> FALSE, _unsubscribe |-> Undefined]

\* Observer.next without the isUnsubscribed test.
Observer_next_unguarded(o, i, lg, value) ==
  IF o.handlers.next # "absent"
  THEN Res(o, Append(lg, Ev("next", i, value, o.isUnsubscribed)),
           o.handlers.next = "throws")
  ELSE Res(o, lg, FALSE)

\* Observer.next that unsubscribes after delivering a value.
Observer_next_thenUnsubscribe(o, i, lg, value) ==
  IF o.handlers.next # "absent" /\ ~o.isUnsubscribed
  THEN LET lg1 == Append(lg, Ev("next", i, value, o.isUnsubscribed))
       IN IF o.handlers.next = "throws"
          THEN Res(o, lg1, TRUE)
          ELSE Res([o EXCEPT !.isUnsubscribed = TRUE], lg1, FALSE)
  ELSE Res(o, lg, FALSE)

Observer_next(o, i, lg, value) ==
  IF o.handlers.next # "absent" /\ ~o.isUnsubscribed
  THEN Res(o, Append(lg, Ev("next", i, value, o.isUnsubscribed)),
           o.handlers.next = "throws")
  ELSE Res(o, lg, FALSE)

\* Observer.unsubscribe that runs the teardown and leaves the flag alone.
Observer_unsubscribe_noFlag(o, i, lg) ==
  IF o._unsubscribe # Undefined
  THEN Res(o, Append(lg, Ev("teardown", o._unsubscribe, Undefined,
                            o.isUnsubscribed)), FALSE)
  ELSE Res(o, lg, FALSE)

Observer_unsubscribe(o, i, lg) ==
  LET o1 == [o EXCEPT !.isUnsubscribed = TRUE]
  IN IF o1._unsubscribe # Undefined
     THEN Res(o1, Append(lg, Ev("teardown", o1._unsubscribe, Undefined,
                                o1.isUnsubscribed)), FALSE)
     ELSE Res(o1, lg, FALSE)

\* Observer.error that does nothing when no error handler was supplied.
Observer_error_needsHandler(o, i, lg, error) ==
  IF o.handlers.error # "absent" /\ ~o.isUnsubscribed
  THEN LET lg1 == Append(lg, Ev("error", i, error, o.isUnsubscribed))
       IN IF o.handlers.error = "throws"
          THEN Res(o, lg1, TRUE)
          ELSE Observer_unsubscribe(o, i, lg1)
  ELSE Res(o, lg, FALSE)

\* Observer.error that calls the handler without the error.
Observer_error_dropsError(o, i, lg, error) ==
  IF ~o.isUnsubscribed
  THEN IF o.handlers.error # "absent"
       THEN LET lg1 == Append(lg, Ev("error", i, Undefined, o.isUnsubscribed))
            IN IF o.handlers.error = "throws"
               THEN Res(o, lg1, TRUE)
               ELSE Observer_unsubscribe(o, i, lg1)
       ELSE Observer_unsubscribe(o, i, lg)
  ELSE Res(o, lg, FALSE)

Observer_error(o, i, lg, error) ==
  IF ~o.isUnsubscribed
  THEN IF o.handlers.error # "absent"
       THEN LET lg1 == Append(lg, Ev("error", i, error, o.isUnsubscribed))
            IN IF o.handlers.error = "throws"
               THEN Res(o, lg1, TRUE)
               ELSE Observer_unsubscribe(o, i, lg1)
       ELSE Observer_unsubscribe(o, i, lg)
  ELSE Res(o, lg, FALSE)

\* Observer.complete that unsubscribes in a finally block, also when the
\* handler throws.
Observer_complete_finally(o, i, lg) ==
  IF ~o.isUnsubscribed
  THEN IF o.handlers.complete # "absent"
       THEN LET lg1 == Append(lg, Ev("complete", i, Undefined, o.isUnsubscribed))
                r == Observer_unsubscribe(o, i, lg1)
            IN Res(r.o, r.log, o.handlers.complete = "throws")
       ELSE Observer_unsubscribe(o, i, lg)
  ELSE Res(o, lg, FALSE)

Observer_complete(o, i, lg) ==
  IF ~o.isUnsubscribed
  THEN IF o.handlers.complete # "absent"
       THEN LET lg1 == Append(lg, Ev("complete", i, Undefined, o.isUnsubscribed))
            IN IF o.handlers.complete = "throws"
               THEN Res(o, lg1, TRUE)
               ELSE Observer_unsubscribe(o, i, lg1)
       ELSE Observer_unsubscribe(o, i, lg)
  ELSE Res(o, lg, FALSE)

\* setUnsubscribe that invokes the teardown at once on a terminated Observer.
setUnsubscribe_immediate(o, i, lg, unsubscribeFn) ==
  IF o.isUnsubscribed
  THEN Res([o EXCEPT !._unsubscribe = unsubscribeFn],
           Append(lg, Ev("teardown", unsubscribeFn, Undefined, TRUE)), FALSE)
  ELSE Res([o EXCEPT !._unsubscribe = unsubscribeFn], lg, FALSE)

setUnsubscribe(o, i, lg, unsubscribeFn) ==
  Res([o EXCEPT !._unsubscribe = unsubscribeFn], lg, FALSE)

(* ---------------------------- Observable ----------------------------- *)
\* One call of the producer on its Observer.
Call(o, i, lg, step) ==
  CASE step.op = "next" -> Observer_next(o, i, lg, step.arg)
    [] step.op = "error" -> Observer_error(o, i, lg, step.arg)
    [] step.op = "complete" -> Observer_complete(o, i, lg)
    [] step.op = "unsubscribe" -> Observer_unsubscribe(o, i, lg)

\* The calls of a producer inside subscribe(): in order, up to the first one
\* an exception leaves.
RECURSIVE RunScript(_, _, _)
RunScript(r, i, script) ==
  IF script = <<>> \/ r.threw
  THEN r
  ELSE RunScript(Call(r.o, i, r.log, Head(script)), i, Tail(script))

\* new Observable(subscribe): stores the producer.  A producer makes the
\* first `sync` calls of its script while subscribe() runs, then returns (or
\* throws) `ret`, and makes the rest later, one at a time.
NewObservable(script, sync, ret) ==
  [kind |-> "custom", values |-> <<>>, script |-> script, sync |-> sync,
   ret |-> ret]

\* Observable.from iterating the array from its end.
from_reversed(values) ==
  [kind |-> "from", values |-> values,
   script |-> [k \in 1..Len(values) |->
                 [op |-> "next", arg |-> values[Len(values) + 1 - k]]]
                \o <<[op |-> "complete", arg |-> Undefined]>>,
   sync |-> Len(values) + 1,
   ret |-> "function"]

\* Observable.from whose producer defers complete() to a later turn.
from_deferredComplete(values) ==
  [kind |-> "from", values |-> values,
   script |-> [k \in 1..Len(values) |-> [op |-> "next", arg |-> values[k]]]
                \o <<[op |-> "complete", arg |-> Undefined]>>,
   sync |-> Len(values),
   ret |-> "function"]

\* Observable.from(values): next for every value in order, complete, and a
\* teardown function as the return value, all inside subscribe().
from(values) ==
  [kind |-> "from", values |-> values,
   script |-> [k \in 1..Len(values) |-> [op |-> "next", arg |-> values[k]]]
                \o <<[op |-> "complete", arg |-> Undefined]>>,
   sync |-> Len(values) + 1,
   ret |-> "function"]

\* subscribe that catches what the producer throws and reports it through
\* observer.error.
subscribe_catching(obsv, obs, i, lg) ==
  LET observer == Observer(obs)
      run == RunScript(Res(observer, lg, FALSE), i, SubSeq(obsv.script, 1, obsv.sync))
  IN IF run.threw
     THEN Res(run.o, run.log, TRUE)
     ELSE IF obsv.ret = "throw"
          THEN Observer_error(run.o, i, run.log, ProducerExc)
          ELSE setUnsubscribe(run.o, i, run.log,
                              IF obsv.ret = "function" THEN i ELSE Undefined)

\* subscribe with the teardown kept in one slot shared by all subscriptions.
subscribe_sharedTeardown(obsv, obs, i, lg) ==
  LET observer == Observer(obs)
      run == RunScript(Res(observer, lg, FALSE), i, SubSeq(obsv.script, 1, obsv.sync))
  IN IF run.threw \/ obsv.ret = "throw"
     THEN Res(run.o, run.log, TRUE)
     ELSE setUnsubscribe(run.o, i, run.log,
                         IF obsv.ret = "function" THEN 1 ELSE Undefined)

\* subscribe that runs the producer a second time on the same Observer.
subscribe_runsTwice(obsv, obs, i, lg) ==
  LET observer == Observer(obs)
      once == RunScript(Res(observer, lg, FALSE), i, SubSeq(obsv.script, 1, obsv.sync))
      run == RunScript(once, i, SubSeq(obsv.script, 1, obsv.sync))
  IN IF run.threw \/ obsv.ret = "throw"
     THEN Res(run.o, run.log, TRUE)
     ELSE setUnsubscribe(run.o, i, run.log,
                         IF obsv.ret = "function" THEN i ELSE Undefined)

\* observable.subscribe(obs) as the i-th subscription: a new Observer, the
\* producer run, then setUnsubscribe with the returned function, if it is
\* one.  threw: an exception left subscribe() and no handle was returned.
subscribe(obsv, obs, i, lg) ==
  LET observer == Observer(obs)
      run == RunScript(Res(observer, lg, FALSE), i, SubSeq(obsv.script, 1, obsv.sync))
  IN IF run.threw \/ obsv.ret = "throw"
     THEN Res(run.o, run.log, TRUE)
     ELSE setUnsubscribe(run.o, i, run.log,
                         IF obsv.ret = "function" THEN i ELSE Undefined)

(* ------------------------------ actions ------------------------------ *)
\* The record kept of the last call: the operation, the Observer it was made
\* on (0: none), and whether an exception left it.
Called(op, i, threw) == [op |-> op, obs |-> i, threw |-> threw]

Init ==
  /\ observable = NoObservable
  /\ observers = <<>>
  /\ handles = {}
  /\ pc = <<>>
  /\ log = <<>>
  /\ unsubCalls = <<>>
  /\ last = Called("none", 0, FALSE)

\* const requests$ = Observable.from(values)
From(arrays) ==
  /\ observable = NoObservable
  /\ \E values \in arrays :
    /\ observable' = from(values)
    /\ last' = Called("from", 0, FALSE)
    /\ UNCHANGED <<observers, handles, pc, log, unsubCalls>>

\* new Observable(producer)
Construct(scripts, rets) ==
  /\ observable = NoObservable
  /\ \E script \in scripts, ret \in rets :
    \E sync \in 0..Len(script) :
      /\ observable' = NewObservable(script, sync, ret)
      /\ last' = Called("new", 0, FALSE)
      /\ UNCHANGED <<observers, handles, pc, log, unsubCalls>>

\* const subscription = observable.subscribe(obs)
Subscribe(handlerSets, maxSubs) ==
  /\ observable # NoObservable
  /\ Len(observers) < maxSubs
  /\ \E obs \in handlerSets :
    LET i == Len(observers) + 1
        r == subscribe(observable, obs, i, log)
    IN /\ observers' = Append(observers, r.o)
       /\ handles' = IF r.threw THEN handles ELSE handles \cup {i}
       /\ pc' = Append(pc, observable.sync)
       /\ log' = r.log
       /\ unsubCalls' = Append(unsubCalls, 0)
       /\ last' = Called("subscribe", i, r.threw)
       /\ UNCHANGED observable

\* The next call on its Observer of a producer run that goes on after
\* subscribe() is over (from a timer or an event it set up).
ProducerCall ==
  \E i \in DOMAIN observers :
    /\ pc[i] < Len(observable.script)
    /\ LET step == observable.script[pc[i] + 1]
           r == Call(observers[i], i, log, step)
       IN /\ observers' = [observers EXCEPT ![i] = r.o]
          /\ log' = r.log
          /\ last' = Called(step.op, i, r.threw)
    /\ pc' = [pc EXCEPT ![i] = @ + 1]
    /\ UNCHANGED <<observable, handles, unsubCalls>>

\* subscription.unsubscribe()
Unsubscribe(maxUnsub) ==
  \E i \in handles :
    LET r == Observer_unsubscribe(observers[i], i, log)
    IN /\ unsubCalls[i] < maxUnsub
       /\ observers' = [observers EXCEPT ![i] = r.o]
       /\ log' = r.log
       /\ unsubCalls' = [unsubCalls EXCEPT ![i] = @ + 1]
       /\ last' = Called("subscription.unsubscribe", i, FALSE)
       /\ UNCHANGED <<observable, handles, pc>>

\* One Observable and its first subscription, over every producer and every
\* handler record within the bounds.
Next ==
  \/ From(SeqsUpTo(Values, MaxLen))
  \/ Construct(SeqsUpTo(Steps, MaxScript), RetKind)
  \/ Subscribe(Handlers, 1)
  \/ ProducerCall
  \/ Unsubscribe(MaxUnsub)

Spec == Init /\ [][Next]_vars

\* One Observable subscribed to several times, by consumers whose handlers
\* return; each subscription is unsubscribed once at most.
MultiHandlers == [next : {"returns"}, error : {"absent", "returns"},
                  complete : {"absent", "returns"}]
MultiSteps == {[op |-> "next", arg |-> 1], [op |-> "error", arg |-> -1],
               [op |-> "complete", arg |-> Undefined]}

NextMulti ==
  \/ From(SeqsUpTo(Values, 1))
  \/ Construct(SeqsUpTo(MultiSteps, 1), {"function", "void"})
  \/ Subscribe(MultiHandlers, MaxSubs)
  \/ ProducerCall
  \/ Unsubscribe(1)

SpecMulti == Init /\ [][NextMulti]_vars

(* ------------------------------ claims ------------------------------- *)
\* What the log holds for Observer i: its handler invocations, and how often
\* a handler or its teardown ran.
Handled(lg, i) == SelectSeq(lg, LAMBDA e : e.obs = i /\ e.ev # "teardown")
Count(lg, i, ev) == Len(SelectSeq(lg, LAMBDA e : e.obs = i /\ e.ev = ev))
Terminal == {"error", "complete"}

\* Observer i was still active when its subscribe() returned.
ActiveAtReturn(i) ==
  ~subscribe(observable, observers[i].handlers, i, <<>>).o.isUnsubscribed

\* C1: for a subscription whose producer returned a teardown function, the
\* teardown is invoked at most once over all error(), complete() and
\* unsubscribe() calls, and exactly once once the Observer is terminated
\* (stated here for the Observers terminated after subscribe() returned; C2
\* is about the others).
C1_TeardownExactlyOnce ==
  \A i \in handles :
    observable.ret = "function" =>
      /\ Count(log, i, "teardown") <= 1
      /\ (observers[i].isUnsubscribed /\ ActiveAtReturn(i))
           => Count(log, i, "teardown") = 1

\* C2: when the producer terminated its Observer during the producer call and
\* then returned a teardown function, that teardown has been invoked by the
\* time subscribe() returns.
C2_TeardownRunBySubscribeReturn ==
  (/\ last.op = "subscribe"
   /\ ~last.threw
   /\ observable.ret = "function"
   /\ observers[last.obs].isUnsubscribed)
    => Count(log, last.obs, "teardown") = 1

\* C3: once an Observer is terminated, no call of next(), error() or
\* complete() on it invokes a handler: every handler invocation happened
\* while isUnsubscribed was false, and the handler invocations of a terminated
\* Observer never grow.
C3_NoHandlerAfterTermination ==
  /\ [](\A k \in DOMAIN log : log[k].ev # "teardown" => ~log[k].unsub)
  /\ [][\A i \in DOMAIN observers :
          observers[i].isUnsubscribed => Handled(log', i) = Handled(log, i)]_vars

\* next() was called on an Observer that has a next handler and had been
\* terminated by an earlier call.
C3_Witness ==
  /\ last.op = "next"
  /\ observers[last.obs].isUnsubscribed
  /\ observers[last.obs].handlers.next = "returns"

\* What a consumer with next and complete handlers sees of from(values):
\* every element in order, then complete, each while the Observer is active.
FromExpected(values, i) ==
  [k \in 1..Len(values) |-> Ev("next", i, values[k], FALSE)]
    \o <<Ev("complete", i, Undefined, FALSE)>>

\* C4 as stated: subscribing to from(S) with next and complete handlers
\* invokes next once per element of S in order, then complete once, and never
\* the error handler.
C4_FromDeliversAll ==
  \A i \in DOMAIN observers :
    (/\ observable.kind = "from"
     /\ observers[i].handlers.next # "absent"
     /\ observers[i].handlers.complete # "absent")
      => Handled(log, i) = FromExpected(observable.values, i)

\* C4, amended: the same, for a next handler that returns (a next handler
\* that throws ends the run at its first invocation).
C4_FromDeliversAllReturning ==
  \A i \in DOMAIN observers :
    (/\ observable.kind = "from"
     /\ observers[i].handlers.next = "returns"
     /\ observers[i].handlers.complete # "absent")
      => Handled(log, i) = FromExpected(observable.values, i)

\* from of two different elements was subscribed to with returning handlers.
C4_Witness ==
  /\ observable.kind = "from"
  /\ Len(observable.values) = 2
  /\ observable.values[1] # observable.values[2]
  /\ last = Called("subscribe", 1, FALSE)
  /\ observers[1].handlers.next = "returns"
  /\ observers[1].handlers.complete = "returns"
  /\ Len(log) = 3

\* The producer's calls inside subscribe() include a terminating one.
SyncTerminates ==
  \E k \in 1..observable.sync :
    observable.script[k].op \in {"error", "complete", "unsubscribe"}

\* C5: isUnsubscribed is monotone: false on a new Observer, true from the
\* first call of error(), complete() or unsubscribe() on, and never set back
\* to false by any operation.
C5_FlagMonotone ==
  /\ [][\A i \in DOMAIN observers :
          observers[i].isUnsubscribed => observers'[i].isUnsubscribed]_vars
  /\ []((last.op \in {"error", "complete", "unsubscribe",
                      "subscription.unsubscribe"})
          => observers[last.obs].isUnsubscribed)
  /\ []((last.op = "subscribe" /\ ~SyncTerminates)
          => ~observers[last.obs].isUnsubscribed)

\* C6: over any sequence of error(), complete() and unsubscribe()
\* calls on one Observer, the error and complete handlers are invoked at most
\* once in total.
C6_OneTerminalNotification ==
  \A i \in DOMAIN observers :
    Count(log, i, "error") + Count(log, i, "complete") <= 1

\* C7: once subscription.unsubscribe() has returned, no next handler is
\* invoked for that subscription, whatever the producer goes on to call.
C7_NoNextAfterUnsubscribe ==
  [][\A i \in handles :
       unsubCalls[i] > 0 => Count(log', i, "next") = Count(log, i, "next")]_vars

\* The producer delivered a value, the consumer unsubscribed, and the
\* producer called next again.
C7_Witness ==
  \E i \in handles :
    /\ unsubCalls[i] > 0
    /\ last = Called("next", i, FALSE)
    /\ observers[i].handlers.next = "returns"
    /\ Count(log, i, "next") = 1
    /\ pc[i] = 2

\* C8: when the producer throws during subscribe(), the exception leaves
\* subscribe(), no subscription handle is returned, and the only handlers
\* that have run are those the producer called before it threw: no handler is
\* given the thrown exception.
C8_ProducerThrowPropagates ==
  (last.op = "subscribe" /\ (observable.ret = "throw" \/ last.threw)) =>
    LET i == last.obs
        h == Handled(log, i)
    IN /\ last.threw
       /\ i \notin handles
       /\ \A k \in DOMAIN log : log[k].val # ProducerExc
       /\ Len(h) <= observable.sync
       /\ \A k \in DOMAIN h :
            \E n \in 1..observable.sync :
              /\ observable.script[n].op = h[k].ev
              /\ observable.script[n].arg = h[k].val

\* A producer called next and then threw, on an Observer with next and error
\* handlers.
C8_Witness ==
  /\ last = Called("subscribe", 1, TRUE)
  /\ observable.ret = "throw"
  /\ observers[1].handlers.next = "returns"
  /\ observers[1].handlers.error = "returns"
  /\ Len(log) = 1
  /\ log[1].ev = "next"

\* C9: error() on an active Observer that has no error handler invokes no
\* handler, terminates the Observer and runs the registered teardown.
C9_ErrorWithoutHandler ==
  /\ [](\A k \in DOMAIN log :
          log[k].ev = "error" => observers[log[k].obs].handlers.error # "absent")
  /\ []((/\ last.op = "subscribe"
         /\ observers[last.obs].handlers.error = "absent"
         /\ observable.sync >= 1
         /\ observable.script[1].op = "error")
          => (/\ observers[last.obs].isUnsubscribed
              /\ Handled(log, last.obs) = <<>>))
  /\ [][\A i \in DOMAIN observers :
          (/\ pc'[i] = pc[i] + 1
           /\ observable.script[pc[i] + 1].op = "error"
           /\ ~observers[i].isUnsubscribed
           /\ observers[i].handlers.error = "absent")
            => (/\ observers'[i].isUnsubscribed
                /\ ~last'.threw
                /\ log' = IF observers[i]._unsubscribe # Undefined
                          THEN Append(log, Ev("teardown", i, Undefined, TRUE))
                          ELSE log)]_vars

\* error() was the first call on an active Observer with a registered
\* teardown and no error handler; the teardown ran and nothing else.
C9_Witness ==
  /\ last = Called("error", 1, FALSE)
  /\ observers[1].handlers = [next |-> "returns", error |-> "absent",
                              complete |-> "returns"]
  /\ observable.sync = 0
  /\ pc[1] = 1
  /\ unsubCalls[1] = 0
  /\ observers[1].isUnsubscribed
  /\ log = <<Ev("teardown", 1, Undefined, TRUE)>>

\* C10: subscriptions of one Observable are independent: every subscribe()
\* starts with an active Observer of its own, and a call made on one
\* subscription (by its producer run or through its handle) changes neither
\* the flag, the stored teardown nor the deliveries of any other.
C10_SubscriptionsIndependent ==
  /\ [](\A i \in DOMAIN observers :
          observable.kind = "from"
            => Count(log, i, "next") = Len(observable.values))
  /\ [][\A j \in DOMAIN observers :
          (pc'[j] = pc[j] /\ unsubCalls'[j] = unsubCalls[j])
            => (/\ observers'[j] = observers[j]
                /\ SelectSeq(log', LAMBDA e : e.obs = j)
                     = SelectSeq(log, LAMBDA e : e.obs = j))]_vars

\* One subscription was unsubscribed with its teardown run, and the producer
\* then delivered a value to another one, still active.
C10_Witness ==
  \E i, j \in DOMAIN observers :
    /\ i # j
    /\ unsubCalls[i] = 1
    /\ observers[i].isUnsubscribed
    /\ Count(log, i, "teardown") = 1
    /\ ~observers[j].isUnsubscribed
    /\ last = Called("next", j, FALSE)
    /\ log[Len(log)] = Ev("next", j, 1, FALSE)

\* C11: when subscribe() to from(S) returns, the run is over: every element
\* of S was delivered, complete was called and the Observer is terminated,
\* and no handler is invoked afterwards, whatever is called on the handle.
C11_FromRunOverAtReturn ==
  /\ [](\A i \in handles :
          observable.kind = "from" =>
            /\ observers[i].isUnsubscribed
            /\ pc[i] = Len(observable.script)
            /\ Count(log, i, "next")
                 = IF observers[i].handlers.next = "absent"
                   THEN 0 ELSE Len(observable.values)
            /\ Count(log, i, "complete")
                 = IF observers[i].handlers.complete = "absent" THEN 0 ELSE 1
            /\ Count(log, i, "error") = 0)
  /\ [][\A i \in handles :
          observable.kind = "from" => Handled(log', i) = Handled(log, i)]_vars

\* subscribe() to from of two elements returned, and unsubscribe() was then
\* called twice on the handle.
C11_Witness ==
  /\ observable.kind = "from"
  /\ Len(observable.values) = 2
  /\ 1 \in handles
  /\ observers[1].handlers = [next |-> "returns", error |-> "returns",
                              complete |-> "returns"]
  /\ unsubCalls[1] = 2
  /\ Len(Handled(log, 1)) = 3

\* The producer's calls inside subscribe() are all next.
SyncOnlyNext ==
  \A k \in 1..observable.sync : observable.script[k].op = "next"

\* C12: an Observable is inert until subscribed: creating it (the
\* constructor, from) runs no producer and invokes no handler; every
\* subscribe() runs the stored producer once (the handlers invoked are those
\* of one pass over its calls); the stored producer is never replaced.
C12_InertUntilSubscribed ==
  /\ [](observers = <<>> => log = <<>>)
  /\ [][(observable = NoObservable /\ observable' # NoObservable)
          => (log' = log /\ observers' = observers /\ pc' = pc)]_vars
  /\ [][observable # NoObservable => observable' = observable]_vars
  /\ [][Len(observers') = Len(observers) + 1 =>
          LET i == Len(observers')
              new == SubSeq(log', Len(log) + 1, Len(log'))
          IN /\ SubSeq(log', 1, Len(log)) = log
             /\ Len(new) <= observable.sync
             /\ (SyncOnlyNext /\ observers'[i].handlers.next = "returns")
                  => new = [k \in 1..observable.sync |->
                              Ev("next", i, observable.script[k].arg, FALSE)]]_vars

\* subscribe() ran a producer that calls next twice while it runs, for a
\* consumer with a next handler.
C12_Witness ==
  /\ last = Called("subscribe", 1, FALSE)
  /\ observable.kind = "custom"
  /\ observable.sync = 2
  /\ SyncOnlyNext
  /\ observers[1].handlers.next = "returns"
  /\ Len(log) = 2

\* C13: a producer that calls observer.error(e) once and never next: a
\* consumer with an error handler has it invoked exactly once, with e, and
\* neither its next nor its complete handler is invoked.
C13_ErrorDeliveredOnce ==
  \A i \in DOMAIN observers :
    (/\ Len(observable.script) = 1
     /\ observable.script[1].op = "error"
     /\ pc[i] = 1
     /\ observable.sync = 1 \/ unsubCalls[i] = 0
     /\ observers[i].handlers.error # "absent")
      => Handled(log, i) = <<Ev("error", i, observable.script[1].arg, FALSE)>>

\* subscribe() ran a producer whose only call is error(e), for a consumer
\* with all three handlers.
C13_Witness ==
  /\ last = Called("subscribe", 1, FALSE)
  /\ Len(observable.script) = 1
  /\ observable.script[1] = [op |-> "error", arg |-> -2]
  /\ observable.sync = 1
  /\ observers[1].handlers = [next |-> "returns", error |-> "returns",
                              complete |-> "returns"]
  /\ Len(log) = 1

\* C14: when the producer returns something that is not a function (or
\* nothing), no teardown is registered: every later error(), complete() or
\* unsubscribe() only sets the flag, invokes no teardown, and does not fail.
C14_NoTeardownRegistered ==
  \A i \in handles :
    observable.ret \in {"void", "value"} =>
      /\ observers[i]._unsubscribe = Undefined
      /\ Count(log, i, "teardown") = 0
      /\ (last.obs = i /\ last.op \in {"error", "complete", "unsubscribe",
                                         "subscription.unsubscribe"})
           => (~last.threw /\ observers[i].isUnsubscribed)

\* The call the producer run of Observer i makes in this step, when the
\* step is one (used in action formulas).
ProducerStep(i) == observable.script[pc[i] + 1]

\* C15: next(value) never changes the Observer's lifecycle: it leaves
\* isUnsubscribed and the stored teardown as they are and invokes neither the
\* teardown nor the error or complete handler; it invokes the next handler
\* once with value when the Observer is active and has one, and does nothing
\* otherwise.
C15_NextFrame ==
  /\ []((last.op = "subscribe" /\ SyncOnlyNext)
          => (/\ ~observers[last.obs].isUnsubscribed
              /\ \A k \in DOMAIN log :
                   log[k].obs = last.obs => log[k].ev = "next"))
  /\ [][\A i \in DOMAIN observers :
          (pc'[i] = pc[i] + 1 /\ ProducerStep(i).op = "next")
            => (/\ observers'[i] = observers[i]
                /\ log' = IF /\ ~observers[i].isUnsubscribed
                             /\ observers[i].handlers.next # "absent"
                          THEN Append(log, Ev("next", i, ProducerStep(i).arg, FALSE))
                          ELSE log)]_vars

\* next was delivered twice to an active Observer with a registered
\* teardown, which is still active.
C15_Witness ==
  /\ last = Called("next", 1, FALSE)
  /\ 1 \in handles
  /\ observable.sync = 0
  /\ pc[1] = 2
  /\ Count(log, 1, "next") = 2
  /\ ~observers[1].isUnsubscribed
  /\ observers[1]._unsubscribe = 1

\* C16: error() or complete() on an active Observer with the matching handler
\* and a registered teardown: the handler is invoked first, while the
\* Observer is still active, then the Observer is terminated, then the
\* teardown runs; the teardown never runs before the handler.
C16_HandlerThenTeardown ==
  [][\A i \in DOMAIN observers :
       (/\ pc'[i] = pc[i] + 1
        /\ ProducerStep(i).op \in Terminal
        /\ ~observers[i].isUnsubscribed
        /\ observers[i].handlers[ProducerStep(i).op] # "absent"
        /\ observers[i]._unsubscribe # Undefined)
         => (/\ log' = log \o <<Ev(ProducerStep(i).op, i, ProducerStep(i).arg, FALSE),
                                Ev("teardown", i, Undefined, TRUE)>>
             /\ observers'[i].isUnsubscribed)]_vars

\* C17: when the consumer's error or complete handler throws, the exception
\* reaches the caller of error() / complete() and the Observer stays active:
\* isUnsubscribed stays false and the teardown is not run, so a later
\* error() or complete() invokes a terminal handler again and a later next()
\* is delivered.
C17_ThrowingHandlerLeavesActive ==
  /\ []((/\ last.op = "subscribe"
         /\ observable.sync >= 1
         /\ observable.script[1].op \in Terminal
         /\ observers[last.obs].handlers[observable.script[1].op] = "throws")
          => (/\ last.threw
              /\ ~observers[last.obs].isUnsubscribed
              /\ log = <<Ev(observable.script[1].op, last.obs,
                            observable.script[1].arg, FALSE)>>))
  /\ [][\A i \in DOMAIN observers :
          (/\ pc'[i] = pc[i] + 1
           /\ ProducerStep(i).op \in Terminal
           /\ ~observers[i].isUnsubscribed
           /\ observers[i].handlers[ProducerStep(i).op] = "throws")
            => (/\ last'.threw
                /\ observers'[i] = observers[i]
                /\ log' = Append(log, Ev(ProducerStep(i).op, i,
                                         ProducerStep(i).arg, FALSE)))]_vars

\* A complete handler threw; the Observer, which has a registered teardown,
\* then had a value delivered by next.
C17_Witness ==
  /\ 1 \in handles
  /\ observable.sync = 0
  /\ observers[1]._unsubscribe = 1
  /\ observers[1].handlers.complete = "throws"
  /\ last = Called("next", 1, FALSE)
  /\ Len(log) = 2
  /\ log[1].ev = "complete"
  /\ log[2].ev = "next"
  /\ ~observers[1].isUnsubscribed

\* The unsubscribe() calls the producer of Observer i made on it after
\* subscribe() returned.
ProducerUnsubscribes(i) ==
  Cardinality({k \in (observable.sync + 1)..pc[i] :
                 observable.script[k].op = "unsubscribe"})

\* C18: for a subscription whose producer terminated the Observer inside
\* subscribe() and returned a teardown (every subscription of from), the
\* teardown is not invoked during subscribe() and is invoked once by every
\* unsubscribe() call made afterwards, so the teardown invocations are as
\* many as the unsubscribe() calls; from(S).subscribe(handlers) followed by
\* one subscription.unsubscribe() gives next for each element in order,
\* complete once, then the teardown once.
C18_TeardownPerUnsubscribeCall ==
  /\ [](\A i \in handles :
          (observable.ret = "function" /\ ~ActiveAtReturn(i))
            => (/\ Count(log, i, "teardown")
                     = unsubCalls[i] + ProducerUnsubscribes(i)
                /\ observable.kind = "from"
                     => Count(log, i, "teardown") = unsubCalls[i]
                /\ last.op = "subscribe" => Count(log, i, "teardown") = 0))
  /\ [](\A i \in handles :
          (/\ observable.kind = "from"
           /\ observers[i].handlers = [next |-> "returns", error |-> "returns",
                                       complete |-> "returns"]
           /\ unsubCalls[i] = 1)
            => log = FromExpected(observable.values, i)
                       \o <<Ev("teardown", i, Undefined, TRUE)>>)
  /\ [][\A i \in handles :
          (/\ observable.ret = "function"
           /\ ~ActiveAtReturn(i)
           /\ unsubCalls'[i] = unsubCalls[i] + 1)
            => log' = Append(log, Ev("teardown", i, Undefined, TRUE))]_vars

\* from of two elements was subscribed to with three returning handlers and
\* the handle's unsubscribe() was called once.
C18_Witness ==
  /\ observable.kind = "from"
  /\ Len(observable.values) = 2
  /\ 1 \in handles
  /\ observers[1].handlers = [next |-> "returns", error |-> "returns",
                              complete |-> "returns"]
  /\ unsubCalls[1] = 1
  /\ last = Called("subscription.unsubscribe", 1, FALSE)
  /\ Len(log) = 4
  /\ log[4].ev = "teardown"

====
